---- MODULE Spec2Model ----
(***************************************************************************)
(* Model of src/response.py: rebin_by_arrays, E_compton and response().    *)
(*                                                                         *)
(* Numbers are exact rationals <<n, d>> with d > 0 in lowest terms, plus   *)
(* the three IEEE values a numpy division can produce: NaN = <<0,0>>,      *)
(* +inf = <<1,0>>, -inf = <<-1,0>>.  Rounding of floating-point results is *)
(* not modelled.  Python sequences are TLA+ sequences, so Python index k   *)
(* is TLA+ index k+1.                                                      *)
(*                                                                         *)
(* response() is modelled statement by statement in source order.  A name  *)
(* that no statement of response() binds (R, Eg_low, Eg_high, E, i_low,    *)
(* E_low, E_high) raises NameError where it is first read.  Lines 237 and  *)
(* 238 are assignments without a right-hand side; they bind nothing.       *)
(***************************************************************************)
EXTENDS Integers, Sequences, FiniteSets, TLC

(***************************************************************************)
(* Arithmetic on numbers                                                   *)
(***************************************************************************)
Abs(n) == IF n < 0 THEN -n ELSE n

Sign(n) == IF n < 0 THEN -1 ELSE IF n > 0 THEN 1 ELSE 0

RECURSIVE GCD(_, _)
GCD(a, b) == IF b = 0 THEN a ELSE GCD(b, a % b)

Norm(n, d) ==
    IF d = 0 THEN <<Sign(n), 0>>
    ELSE LET g == GCD(Abs(n), Abs(d))
             s == IF d < 0 THEN -1 ELSE 1
         IN  <<(s * n) \div g, (s * d) \div g>>

Q(n) == <<n, 1>>

NaN == <<0, 0>>

IsNaN(x) == x = NaN

RAdd(x, y) ==
    IF x[2] = 0 /\ y[2] = 0
    THEN (IF x = y THEN x ELSE NaN)
    ELSE Norm(x[1] * y[2] + y[1] * x[2], x[2] * y[2])

RNeg(x) == <<-x[1], x[2]>>

RSub(x, y) == RAdd(x, RNeg(y))

RMul(x, y) == Norm(x[1] * y[1], x[2] * y[2])

RDiv(x, y) ==
    IF y[1] < 0 THEN Norm(-(x[1] * y[2]), -(x[2] * y[1]))
    ELSE Norm(x[1] * y[2], x[2] * y[1])

\* x < y; FALSE whenever one side is NaN, as in IEEE comparison
RLt(x, y) ==
    IF x[2] = 0 /\ y[2] = 0 THEN x[1] < y[1] /\ x # NaN /\ y # NaN
    ELSE x[1] * y[2] < y[1] * x[2]

RGt(x, y) == RLt(y, x)

RLe(x, y) == RLt(x, y) \/ (x = y /\ ~IsNaN(x))

RGe(x, y) == RLe(y, x)

\* np.minimum / np.maximum: NaN propagates
RMin(x, y) == IF IsNaN(x) \/ IsNaN(y) THEN NaN ELSE IF RLt(y, x) THEN y ELSE x

RMax(x, y) == IF IsNaN(x) \/ IsNaN(y) THEN NaN ELSE IF RLt(x, y) THEN y ELSE x

\* int(x) of a finite number: truncation toward zero
Trunc(x) == IF x[1] >= 0 THEN x[1] \div x[2] ELSE -((-x[1]) \div x[2])

\* sum of s[lo..hi], halving the range to keep the evaluation shallow
RECURSIVE SumRange(_, _, _)
SumRange(s, lo, hi) ==
    IF lo > hi THEN Q(0)
    ELSE IF lo = hi THEN s[lo]
    ELSE LET mid == (lo + hi) \div 2
         IN  RAdd(SumRange(s, lo, mid), SumRange(s, mid + 1, hi))

\* the array's .sum()
SumSeq(s) == SumRange(s, 1, Len(s))

(***************************************************************************)
(* numpy helpers                                                           *)
(***************************************************************************)
\* np.linspace(start, stop, num): num samples, start + k*(stop-start)/(num-1)
Linspace(start, stop, num) ==
    [k \in 1..num |->
        IF num = 1 THEN start
        ELSE RAdd(start, RMul(Q(k - 1), RDiv(RSub(stop, start), Q(num - 1))))]

(***************************************************************************)
(* rebin_by_arrays (lines 12-55)                                           *)
(***************************************************************************)
\* Bin-edge array of length N+1 built from the first centre a0 and step a1
EdgeArray(a0, a1, N) ==
    Linspace(RSub(a0, RDiv(a1, Q(2))),
             RAdd(RSub(a0, RDiv(a1, Q(2))), RMul(a1, Q(N))),
             N + 1)

\* A variant of the overlap that keeps negative values
OverlapNoClamp(olo, ohi, ilo, ihi) == RSub(RMin(ohi, ihi), RMax(olo, ilo))

\* overlap of output bin [olo, ohi] with input bin [ilo, ihi], clamped at 0
Overlap(olo, ohi, ilo, ihi) ==
    LET overlap == RSub(RMin(ohi, ihi), RMax(olo, ilo))
    IN  IF RGt(overlap, Q(0)) THEN overlap ELSE Q(0)

\* A variant of the inner loop that assigns instead of accumulating
RebinBinAssign(counts_in_, EinEdges, EoutEdges, a1_in, i, j) ==
    IF j = 0 THEN Q(0)
    ELSE RDiv(RMul(counts_in_[j],
                   Overlap(EoutEdges[i], EoutEdges[i + 1],
                           EinEdges[j], EinEdges[j + 1])),
              a1_in)

\* the inner loop over j in range(Nin) for output bin i, accumulated from 0
RECURSIVE RebinBin(_, _, _, _, _, _)
RebinBin(counts_in_, EinEdges, EoutEdges, a1_in, i, j) ==
    IF j = 0 THEN Q(0)
    ELSE RAdd(RebinBin(counts_in_, EinEdges, EoutEdges, a1_in, i, j - 1),
              RDiv(RMul(counts_in_[j],
                        Overlap(EoutEdges[i], EoutEdges[i + 1],
                                EinEdges[j], EinEdges[j + 1])),
                   a1_in))

\* The whole function.  Ein_array[1] / Eout_array[1] on a one-element array
\* raises IndexError (lines 33, 35); otherwise the vector counts_out.
rebin_by_arrays(counts_in_, Ein_array_, Eout_array_) ==
    IF Len(Ein_array_) < 2 \/ Len(Eout_array_) < 2
    THEN [err |-> "IndexError", val |-> <<>>]
    ELSE LET Nin    == Len(Ein_array_)
             a0_in  == Ein_array_[1]
             a1_in  == RSub(Ein_array_[2], Ein_array_[1])
             Nout   == Len(Eout_array_)
             a0_out == Eout_array_[1]
             a1_out == RSub(Eout_array_[2], Eout_array_[1])
             EinEdges  == EdgeArray(a0_in, a1_in, Nin)
             EoutEdges == EdgeArray(a0_out, a1_out, Nout)
         IN  [err |-> "none",
              val |-> [i \in 1..Nout |->
                         RebinBin(counts_in_, EinEdges, EoutEdges, a1_in, i, Nin)]]

(***************************************************************************)
(* E_compton (lines 58-73)                                                 *)
(***************************************************************************)
MeC2 == 511

\* cos(theta) for the angles the model uses
Cos(theta) == CASE theta = "0" -> Q(1) [] theta = "pi" -> Q(-1)

\* np.where(Eg > 0.1, Eg*Eg/511*(1-cos) / (1+Eg/511*(1-cos)), Eg)
E_compton(Eg, theta) ==
    LET omc == RSub(Q(1), Cos(theta))
    IN  IF RGt(Eg, Norm(1, 10))
        THEN RDiv(RMul(RDiv(RMul(Eg, Eg), Q(MeC2)), omc),
                  RAdd(Q(1), RMul(RDiv(Eg, Q(MeC2)), omc)))
        ELSE Eg

(***************************************************************************)
(* response(): reading resp.dat (lines 97-126)                             *)
(*                                                                         *)
(* A file is a sequence of lines.  A line is <<"text">> (anything that is  *)
(* neither the marker nor numeric), <<"marker">> (a line that starts with  *)
(* "# Next: Numer of Lines"), <<"int", n>> (one integer) or <<"row", r>>   *)
(* (seven numbers, r).  file.readline() past the end returns '', modelled  *)
(* as <<"eof">>.                                                           *)
(***************************************************************************)
SetMin(S) == CHOOSE x \in S : \A y \in S : x <= y

SetMax(S) == CHOOSE x \in S : \A y \in S : x >= y

LineAt(file, p) == IF p <= Len(file) THEN file[p] ELSE <<"eof">>

\* position of the first marker line, 0 when the loop at 100-108 reaches EOF
FindMarker(file) ==
    LET M == {m \in 1..Len(file) : file[m][1] = "marker"}
    IN  IF M = {} THEN 0 ELSE SetMin(M)

\* np.array(line.split(), dtype="double") (line 118)
RowOfLine(line) ==
    CASE line[1] = "eof" -> <<>>
      [] line[1] = "row" -> line[2]
      [] line[1] = "int" -> <<Q(line[2])>>
      [] OTHER -> <<>>

\* A variant of the row loop that stops at the end of the file
ReadRowsUntilEOF(file, start, n) ==
    LET avail == IF Len(file) > start THEN Len(file) - start ELSE 0
        k == IF n < avail THEN n ELSE avail
    IN  [i \in 1..k |-> LineAt(file, start + i)]

\* for i in range(Nlines): line = file.readline()  (lines 115-116)
ReadRows(file, start, n) == [i \in 1..n |-> LineAt(file, start + i)]

\* lines 97-119: the error raised, Nlines, and the list resp
ParseResp(file) ==
    LET m == FindMarker(file)
        bad(e, n) == [err |-> e, Nlines |-> n, resp |-> <<>>]
    IN  IF m = 0 THEN bad("Exception", -1)
        ELSE LET cnt == LineAt(file, m + 1)
             IN  IF cnt[1] # "int" THEN bad("ValueError", -1)
                 ELSE IF LineAt(file, m + 2)[1] = "eof" THEN bad("Exception", cnt[2])
                 ELSE LET lines == ReadRows(file, m + 2, cnt[2])
                      IN  IF \E i \in 1..Len(lines) : lines[i][1] \in {"text", "marker"}
                          THEN bad("ValueError", cnt[2])
                          ELSE [err |-> "none", Nlines |-> cnt[2],
                                resp |-> [i \in 1..Len(lines) |-> RowOfLine(lines[i])]]

\* lines 124-126: resp = np.array(resp); seven names = resp.T.
\* Rows of one length give a 2-D array whose transpose has that many rows;
\* an empty list gives an empty 1-D array; rows of different lengths give,
\* by the numpy build, a 1-D array of row objects (ragged = "object") or a
\* ValueError (ragged = "error").  Unpacking needs exactly seven items.
Unpack7(resp, ragged) ==
    LET n == Len(resp)
        bad == [err |-> "ValueError", cols |-> <<>>]
    IN  IF n = 0 THEN bad
        ELSE IF \A r \in 1..n : Len(resp[r]) = Len(resp[1])
        THEN (IF Len(resp[1]) # 7 THEN bad
              ELSE [err |-> "none",
                    cols |-> [c \in 1..7 |-> [r \in 1..n |-> resp[r][c]]]])
        ELSE IF ragged = "error" \/ n # 7 THEN bad
        ELSE [err |-> "none", cols |-> resp]

(***************************************************************************)
(* response(): the bracket search (lines 179-193)                          *)
(***************************************************************************)
\* np.where(Eg_array <= E_j)[0][-1], or the initial 0 on IndexError
BracketLow(Eg, E) ==
    LET S == {i \in 0..(Len(Eg) - 1) : RLe(Eg[i + 1], E)}
    IN  IF S = {} THEN 0 ELSE SetMax(S)

\* np.where(Eg_array >= E_j)[0][0], or the initial N_Eg on IndexError
BracketHigh(Eg, E) ==
    LET S == {i \in 0..(Len(Eg) - 1) : RGe(Eg[i + 1], E)}
    IN  IF S = {} THEN Len(Eg) ELSE SetMin(S)

\* lines 189-193: separate the two indices when they coincide
BracketPair(Eg, E) ==
    LET lo == BracketLow(Eg, E)
        hi == BracketHigh(Eg, E)
    IN  IF lo = hi
        THEN (IF lo > 0 THEN <<lo - 1, hi>> ELSE <<lo, hi + 1>>)
        ELSE <<lo, hi>>

\* FWHM_rel.max()
SeqMax(s) ==
    LET V == {s[i] : i \in 1..Len(s)}
    IN  IF NaN \in V THEN NaN
        ELSE CHOOSE x \in V : \A y \in V : RLe(y, x)

(***************************************************************************)
(* response(): normalisation and regions (lines 199-257)                   *)
(***************************************************************************)
\* A variant of the total that leaves the 511 component out
TotalNo511(cmp, FE_, SE_, DE_, c511_) ==
    RAdd(RAdd(RAdd(SumSeq(cmp), FE_), SE_), DE_)

\* cmp.sum() + FE + SE + DE + c511 (lines 211-212)
Total(cmp, FE_, SE_, DE_, c511_) ==
    RAdd(RAdd(RAdd(RAdd(SumSeq(cmp), FE_), SE_), DE_), c511_)

\* x /= total on every continuum channel (lines 214, 219)
DivideAll(cmp, total) == [i \in 1..Len(cmp) |-> RDiv(cmp[i], total)]

\* int((E - a0_out)/a1_out + 0.5) (lines 234-235)
ChannelOf(E, a0_out, a1_out) ==
    Trunc(RAdd(RDiv(RSub(E, a0_out), a1_out), Norm(1, 2)))

\* the right-hand side of line 243, as a function of the values it reads
Line243(cmp_low_i, cmp_high_i, E_j_, Eg_low_, Eg_high_) ==
    RAdd(cmp_low_i,
         RDiv(RMul(RSub(cmp_low_i, cmp_high_i), RSub(E_j_, Eg_low_)),
              RSub(Eg_high_, Eg_low_)))

\* Python's a[i] for -len <= i < len; FALSE is an IndexError
InRange(i, n) == -n <= i /\ i < n

PyIndex(i, n) == IF i < 0 THEN i + n + 1 ELSE i + 1

\* The fan loop of lines 247-249 over i in range(from, to): "E" (line 249)
\* is bound nowhere, so the first channel with E_i > 0.1 raises NameError;
\* a channel outside Eout_array raises IndexError first.
RECURSIVE FanLoop(_, _, _)
FanLoop(Eout, from, to) ==
    IF from >= to THEN "none"
    ELSE IF ~InRange(from, Len(Eout)) THEN "IndexError"
    ELSE IF RGt(Eout[PyIndex(from, Len(Eout))], Norm(1, 10)) THEN "NameError"
    ELSE FanLoop(Eout, from + 1, to)

\* Lines 237-257 for one row.  Lines 237 and 238 have no right-hand side and
\* bind nothing.  Line 243 reads Eg_low and Eg_high and writes R; none of
\* the three is bound anywhere in response(), so the first channel of
\* region A raises NameError.
RegionsOutcome(Eout, i_bsc, i_ce) ==
    IF i_bsc > 0 THEN "NameError" ELSE FanLoop(Eout, i_bsc, i_ce)
(***************************************************************************)
(* State                                                                   *)
(***************************************************************************)
VARIABLES
    \* harness of rebin_by_arrays
    rb_pc,        \* "idle", "call" before rebin_by_arrays runs, "done" after
    rb_counts,    \* counts_in
    rb_Ein,       \* Ein_array  (bin centres)
    rb_Eout,      \* Eout_array (bin centres)
    rb_out,       \* what the call produced: [err, val]
    \* harness of the expression at line 243
    ia_pc,        \* "idle", "call", "done"
    ia_args,      \* <<cmp_low[i], cmp_high[i], E_j, Eg_low, Eg_high>>
    ia_val,       \* its value
    \* response(): position and outcome
    pc,           \* the next step of response()
    err,          \* the exception that ended it, or "none"
    \* response(): arguments and what is on disk
    Eout_array,
    FWHM,
    resp_dat,     \* the lines of resp.dat
    cmp_hdr,      \* header of the Compton files: [a0, a1, last]
    variant,      \* which calibration table is on disk
    ragged,       \* what np.array does with rows of different lengths
    \* response(): locals
    Nlines,
    Eg_array, FWHM_rel, Eff_tot, FE, SE, DE, c511,
    N_cmp, a0_cmp, a1_cmp, compton_matrix, Ecmp_array,
    jpos,         \* position in the list [0,2,10,99] of line 163
    E_j, Egmax,
    i_g_low, i_g_high,
    cmp_low, cmp_high,
    pk_low, pk_high,     \* [FE, SE, DE, c511]: FE_low ... c511_high
    sum_low, sum_high,
    Ece, Ebsc, i_ce_out, i_bsc_out,
    skipped,      \* rows left by the continue of line 167
    done_rows     \* rows whose loop body ran to its end

rebinVars == <<rb_pc, rb_counts, rb_Ein, rb_Eout, rb_out>>

interpVars == <<ia_pc, ia_args, ia_val>>

diskVars == <<Eout_array, FWHM, resp_dat, cmp_hdr, variant, ragged>>

calVars == <<Nlines, Eg_array, FWHM_rel, Eff_tot, FE, SE, DE, c511>>

cmpVars == <<N_cmp, a0_cmp, a1_cmp, compton_matrix, Ecmp_array>>

bracketVars == <<Egmax, i_g_low, i_g_high>>

normVars == <<cmp_low, cmp_high, pk_low, pk_high, sum_low, sum_high>>

edgeVars == <<Ece, Ebsc, i_ce_out, i_bsc_out>>

loopVars == <<jpos, E_j, skipped, done_rows>>

responseVars ==
    <<pc, err, diskVars, calVars, cmpVars, bracketVars, normVars, edgeVars, loopVars>>

vars == <<rebinVars, interpVars, responseVars>>

(***************************************************************************)
(* Program constants                                                       *)
(***************************************************************************)
Egmin == 30

\* for i_plt in [0,5,10,20,50] (line 153)
PlotIdx == {0, 5, 10, 20, 50}

\* for j in [0,2,10,99] (line 163)
RowIdx == <<0, 2, 10, 99>>

\* R is read and written (lines 243, 277) but bound nowhere in response():
\* the set of rows it holds is empty, whatever the step.
R == [j \in {} |-> <<>>]

(***************************************************************************)
(* Inputs of rebin_by_arrays: linearly spaced centre arrays                *)
(***************************************************************************)
MaxBins == 3
MaxCount == 1
MaxStep == 2
MaxOrigin == 1

\* centres origin + i*step, i = 0..count-1
GridArray(origin, step, count) ==
    [i \in 1..count |-> RAdd(origin, RMul(Q(i - 1), step))]

Origins == {Norm(k, 2) : k \in -MaxOrigin..MaxOrigin}

Steps == {Norm(k, 2) : k \in 1..MaxStep}

Grids == {GridArray(o, s, n) : o \in Origins, s \in Steps, n \in 1..MaxBins}

CountVectors(n) == [1..n -> {Q(c) : c \in 0..MaxCount}]

(***************************************************************************)
(* Inputs of response(): the output grid and the calibration files         *)
(***************************************************************************)
MaxNcmp == 3
MaxVariant == 1
MaxExtraRows == 1

\* the smallest table the plot loop of line 153 can index
NEgFull == SetMax(PlotIdx) + 1

\* reference energy of table row k (k = 0, 1, ...), strictly ascending
CalEg(k) == 100 + 2 * k

\* table row k: Eg, FWHM_rel, Eff_tot, FE, SE, DE, c511
CalRow(k, v) ==
    <<Q(CalEg(k)), Norm(1 + (k % 2), 10), Q(1),
      Q((k + v) % 3), Q(k % 2), Norm(v, 2), Q(v)>>

\* the counts stored in the file "cmp<CalEg(k)>"
CmpCounts(k, v, n) == [c \in 1..n |-> Q((k + c + v) % 3)]

TableRows == NEgFull + MaxExtraRows

\* whether a file "cmp<e>" is on disk, and the table row it belongs to
CmpExists(e) == \E k \in 0..(TableRows - 1) : CalEg(k) = e

CmpRowOf(e) == CHOOSE k \in 0..(TableRows - 1) : CalEg(k) = e

\* resp.dat with or without the marker, the count line and the header
\* line, declaring n rows and holding the first m of the table
RespFile(marker, count, header, n, m, v) ==
    <<<<"text">>>>
    \o (IF marker THEN <<<<"marker">>>> ELSE <<>>)
    \o (IF count THEN <<<<"int", n>>>> ELSE <<>>)
    \o (IF header THEN <<<<"text">>>> ELSE <<>>)
    \o [i \in 1..m |-> <<"row", CalRow(i - 1, v)>>]

Declared == {2, 7} \cup (NEgFull..TableRows)

RespFiles(v) ==
    {RespFile(mk, ct, hd, 7, m, v) :
        mk \in BOOLEAN, ct \in BOOLEAN, hd \in BOOLEAN, m \in {0, 3}} \cup
    {RespFile(mk, TRUE, TRUE, n, n - d, v) :
        mk \in BOOLEAN, n \in Declared, d \in {0, 1}}

\* headers of the Compton files: calibration a0, a1 and last channel index
CmpHeaders ==
    {[a0 |-> Q(a), a1 |-> Q(40), last |-> l] :
        a \in {0, 80}, l \in 0..(MaxNcmp - 1)}

\* output grids <<first centre, step, number of bins>>
OutGrids ==
    {<<-100, 1, 100>>, <<50, 10, 2>>, <<50, 10, 3>>, <<0, 5, 11>>,
     <<28, 1, 3>>, <<100, 10, 3>>, <<101, 1, 3>>, <<102, 10, 3>>,
     <<200, 10, 3>>, <<300, 10, 3>>}

(***************************************************************************)
(* Initial states                                                          *)
(***************************************************************************)
RebinIdle ==
    /\ rb_pc = "idle"
    /\ rb_counts = <<>>
    /\ rb_Ein = <<>>
    /\ rb_Eout = <<>>
    /\ rb_out = [err |-> "none", val |-> <<>>]

InterpIdle ==
    /\ ia_pc = "idle"
    /\ ia_args = <<>>
    /\ ia_val = Q(0)

\* the locals of response() before their first assignment
Locals ==
    /\ Nlines = -1
    /\ Eg_array = <<>> /\ FWHM_rel = <<>> /\ Eff_tot = <<>>
    /\ FE = <<>> /\ SE = <<>> /\ DE = <<>> /\ c511 = <<>>
    /\ N_cmp = -1 /\ a0_cmp = Q(-1) /\ a1_cmp = Q(-1)
    /\ compton_matrix = <<>> /\ Ecmp_array = <<>>
    /\ jpos = 1 /\ E_j = Q(0) /\ Egmax = Q(0)
    /\ i_g_low = 0 /\ i_g_high = 0
    /\ cmp_low = <<>> /\ cmp_high = <<>>
    /\ pk_low = <<>> /\ pk_high = <<>>
    /\ sum_low = Q(0) /\ sum_high = Q(0)
    /\ Ece = Q(0) /\ Ebsc = Q(0) /\ i_ce_out = 0 /\ i_bsc_out = 0
    /\ skipped = {} /\ done_rows = {}

ResponseIdle ==
    /\ pc = "idle" /\ err = "none"
    /\ Eout_array = <<>> /\ FWHM = Q(0) /\ resp_dat = <<>>
    /\ cmp_hdr = [a0 |-> Q(0), a1 |-> Q(0), last |-> 0]
    /\ variant = 0 /\ ragged = "error"
    /\ Locals

Init ==
    /\ RebinIdle
    /\ InterpIdle
    /\ pc = "start" /\ err = "none"
    /\ \E g \in OutGrids : Eout_array = GridArray(Q(g[1]), Q(g[2]), g[3])
    /\ FWHM = Q(2)
    /\ variant \in 0..MaxVariant
    /\ resp_dat \in RespFiles(variant)
    /\ cmp_hdr \in CmpHeaders
    /\ ragged \in {"object", "error"}
    /\ Locals

RebinInit ==
    /\ rb_pc = "call"
    /\ rb_Ein \in Grids
    /\ rb_Eout \in Grids
    /\ rb_counts \in CountVectors(Len(rb_Ein))
    /\ rb_out = [err |-> "none", val |-> <<>>]
    /\ InterpIdle
    /\ ResponseIdle

InterpInit ==
    /\ ia_pc = "call"
    /\ ia_args \in
         {<<Norm(a, 4), Norm(b, 4), Q(e), Q(100), Q(200)>> :
             a \in 0..4, b \in 0..4, e \in {100, 125, 150, 200}}
    /\ ia_val = Q(0)
    /\ RebinIdle
    /\ ResponseIdle
(***************************************************************************)
(* Steps of response()                                                     *)
(***************************************************************************)
Raise(e) == pc' = "error" /\ err' = e

\* lines 92-126: Eout_array[1] is read, resp.dat is parsed and unpacked
ReadResp ==
    /\ pc = "start"
    /\ LET p == ParseResp(resp_dat)
           u == Unpack7(p.resp, ragged)
       IN  IF Len(Eout_array) < 2
           THEN Raise("IndexError") /\ UNCHANGED calVars
           ELSE IF p.err # "none"
           THEN /\ Raise(p.err)
                /\ Nlines' = p.Nlines
                /\ UNCHANGED <<Eg_array, FWHM_rel, Eff_tot, FE, SE, DE, c511>>
           ELSE IF u.err # "none"
           THEN /\ Raise(u.err)
                /\ Nlines' = p.Nlines
                /\ UNCHANGED <<Eg_array, FWHM_rel, Eff_tot, FE, SE, DE, c511>>
           ELSE /\ pc' = "cmp" /\ err' = "none"
                /\ Nlines' = p.Nlines
                /\ Eg_array' = u.cols[1] /\ FWHM_rel' = u.cols[2]
                /\ Eff_tot' = u.cols[3] /\ FE' = u.cols[4]
                /\ SE' = u.cols[5] /\ DE' = u.cols[6] /\ c511' = u.cols[7]
    /\ UNCHANGED <<diskVars, cmpVars, bracketVars, normVars, edgeVars, loopVars>>
    /\ UNCHANGED <<rebinVars, interpVars>>

\* lines 129-149: the header of the first Compton file, every Compton
\* spectrum, and the energy axis Ecmp_array
ReadCompton ==
    /\ pc = "cmp"
    /\ IF Len(Eg_array) = 0
       THEN Raise("IndexError") /\ UNCHANGED cmpVars
       ELSE IF ~CmpExists(Trunc(Eg_array[1]))
       THEN Raise("FileNotFoundError") /\ UNCHANGED cmpVars
       ELSE IF \E i \in 1..Len(Eg_array) : ~CmpExists(Trunc(Eg_array[i]))
       THEN /\ Raise("OSError")
            /\ a0_cmp' = cmp_hdr.a0 /\ a1_cmp' = cmp_hdr.a1
            /\ N_cmp' = cmp_hdr.last + 1
            /\ UNCHANGED <<compton_matrix, Ecmp_array>>
       ELSE /\ pc' = "plot" /\ err' = "none"
            /\ a0_cmp' = cmp_hdr.a0 /\ a1_cmp' = cmp_hdr.a1
            /\ N_cmp' = cmp_hdr.last + 1
            /\ compton_matrix' =
                 [i \in 1..Len(Eg_array) |->
                    CmpCounts(CmpRowOf(Trunc(Eg_array[i])), variant, cmp_hdr.last + 1)]
            /\ Ecmp_array' =
                 Linspace(cmp_hdr.a0, RMul(cmp_hdr.a1, Q(cmp_hdr.last)),
                          cmp_hdr.last + 1)
    /\ UNCHANGED <<diskVars, calVars, bracketVars, normVars, edgeVars, loopVars>>
    /\ UNCHANGED <<rebinVars, interpVars>>

\* lines 152-154: compton_matrix[i_plt,:] and Eg_array[i_plt] for the five
\* plotted indices
Plot ==
    /\ pc = "plot"
    /\ IF \E i_plt \in PlotIdx : i_plt >= Len(Eg_array)
       THEN Raise("IndexError")
       ELSE pc' = "rows" /\ err' = "none"
    /\ UNCHANGED <<diskVars, calVars, cmpVars, bracketVars, normVars, edgeVars,
                   loopVars>>
    /\ UNCHANGED <<rebinVars, interpVars>>

\* lines 163-167: the next j of the list; rows below Egmin are skipped
RowLoop ==
    /\ pc = "rows"
    /\ IF jpos > Len(RowIdx)
       THEN /\ pc' = "exit" /\ err' = "none"
            /\ UNCHANGED loopVars
       ELSE LET j == RowIdx[jpos]
            IN  IF j >= Len(Eout_array)
                THEN Raise("IndexError") /\ UNCHANGED loopVars
                ELSE /\ E_j' = Eout_array[j + 1]
                     /\ err' = "none"
                     /\ IF RLt(Eout_array[j + 1], Q(Egmin))
                        THEN /\ pc' = "rows"
                             /\ jpos' = jpos + 1
                             /\ skipped' = skipped \cup {j}
                        ELSE /\ pc' = "bracket"
                             /\ UNCHANGED <<jpos, skipped>>
                     /\ UNCHANGED done_rows
    /\ UNCHANGED <<diskVars, calVars, cmpVars, bracketVars, normVars, edgeVars>>
    /\ UNCHANGED <<rebinVars, interpVars>>

\* lines 171-193: Egmax and the two bracket indices
Bracket ==
    /\ pc = "bracket"
    /\ Egmax' = RAdd(E_j, RDiv(RMul(RMul(Q(6), FWHM), SeqMax(FWHM_rel)),
                               Norm(235, 100)))
    /\ i_g_low' = BracketPair(Eg_array, E_j)[1]
    /\ i_g_high' = BracketPair(Eg_array, E_j)[2]
    /\ pc' = "print" /\ err' = "none"
    /\ UNCHANGED <<diskVars, calVars, cmpVars, normVars, edgeVars, loopVars>>
    /\ UNCHANGED <<rebinVars, interpVars>>

\* lines 196-197: Eg_array[i_g_low] and Eg_array[i_g_high] are printed
PrintBracket ==
    /\ pc = "print"
    /\ IF InRange(i_g_low, Len(Eg_array)) /\ InRange(i_g_high, Len(Eg_array))
       THEN pc' = "rebin" /\ err' = "none"
       ELSE Raise("IndexError")
    /\ UNCHANGED <<diskVars, calVars, cmpVars, bracketVars, normVars, edgeVars,
                   loopVars>>
    /\ UNCHANGED <<rebinVars, interpVars>>

\* lines 199-223: both bracket spectra are rebinned onto Eout_array into new
\* arrays, the peak values are fetched as scalars, and all are divided by
\* the totals; compton_matrix, FE, SE, DE and c511 are not written
RebinNormalize ==
    /\ pc = "rebin"
    /\ LET lo == rebin_by_arrays(compton_matrix[i_g_low + 1], Ecmp_array, Eout_array)
           hi == rebin_by_arrays(compton_matrix[i_g_high + 1], Ecmp_array, Eout_array)
           sl == Total(lo.val, FE[i_g_low + 1], SE[i_g_low + 1],
                       DE[i_g_low + 1], c511[i_g_low + 1])
           sh == Total(hi.val, FE[i_g_high + 1], SE[i_g_high + 1],
                       DE[i_g_high + 1], c511[i_g_high + 1])
       IN  IF lo.err # "none"
           THEN Raise(lo.err) /\ UNCHANGED normVars
           ELSE /\ pc' = "edge" /\ err' = "none"
                /\ sum_low' = sl /\ sum_high' = sh
                /\ cmp_low' = DivideAll(lo.val, sl)
                /\ cmp_high' = DivideAll(hi.val, sh)
                /\ pk_low' = <<RDiv(FE[i_g_low + 1], sl), RDiv(SE[i_g_low + 1], sl),
                               RDiv(DE[i_g_low + 1], sl), RDiv(c511[i_g_low + 1], sl)>>
                /\ pk_high' = <<RDiv(FE[i_g_high + 1], sh), RDiv(SE[i_g_high + 1], sh),
                                RDiv(DE[i_g_high + 1], sh), RDiv(c511[i_g_high + 1], sh)>>
    /\ UNCHANGED <<diskVars, calVars, cmpVars, bracketVars, edgeVars, loopVars>>
    /\ UNCHANGED <<rebinVars, interpVars>>

\* lines 230-235: Compton edge, backscatter energy and their channels
ComptonEdge ==
    /\ pc = "edge"
    /\ LET a0_out == Eout_array[1]
           a1_out == RSub(Eout_array[2], Eout_array[1])
           ece == E_compton(E_j, "0")
       IN  /\ Ece' = ece
           /\ Ebsc' = RSub(E_j, ece)
           /\ i_ce_out' = ChannelOf(ece, a0_out, a1_out)
           /\ i_bsc_out' = ChannelOf(RSub(E_j, ece), a0_out, a1_out)
    /\ pc' = "regions" /\ err' = "none"
    /\ UNCHANGED <<diskVars, calVars, cmpVars, bracketVars, normVars, loopVars>>
    /\ UNCHANGED <<rebinVars, interpVars>>

\* lines 237-257: the two region loops; a row whose loops are both empty
\* ends here, with nothing written
Regions ==
    /\ pc = "regions"
    /\ LET out == RegionsOutcome(Eout_array, i_bsc_out, i_ce_out)
       IN  IF out # "none"
           THEN Raise(out) /\ UNCHANGED loopVars
           ELSE /\ pc' = "rows" /\ err' = "none"
                /\ done_rows' = done_rows \cup {RowIdx[jpos]}
                /\ jpos' = jpos + 1
                /\ UNCHANGED <<E_j, skipped>>
    /\ UNCHANGED <<diskVars, calVars, cmpVars, bracketVars, normVars, edgeVars>>
    /\ UNCHANGED <<rebinVars, interpVars>>

\* line 269: sys.exit(0); the statements after it, the return of line 291
\* included, are never run
Exit ==
    /\ pc = "exit"
    /\ pc' = "exited" /\ err' = "SystemExit"
    /\ UNCHANGED <<diskVars, calVars, cmpVars, bracketVars, normVars, edgeVars,
                   loopVars>>
    /\ UNCHANGED <<rebinVars, interpVars>>

Next ==
    \/ ReadResp
    \/ ReadCompton
    \/ Plot
    \/ RowLoop
    \/ Bracket
    \/ PrintBracket
    \/ RebinNormalize
    \/ ComptonEdge
    \/ Regions
    \/ Exit

Spec == Init /\ [][Next]_vars

(***************************************************************************)
(* rebin_by_arrays on its own                                              *)
(***************************************************************************)
RebinCall ==
    /\ rb_pc = "call"
    /\ rb_out' = rebin_by_arrays(rb_counts, rb_Ein, rb_Eout)
    /\ rb_pc' = "done"
    /\ UNCHANGED <<rb_counts, rb_Ein, rb_Eout>>
    /\ UNCHANGED <<interpVars, responseVars>>

RebinNext == RebinCall

SpecRebin == RebinInit /\ [][RebinNext]_vars

(***************************************************************************)
(* The interpolation expression of line 243 on its own                     *)
(***************************************************************************)
InterpCall ==
    /\ ia_pc = "call"
    /\ ia_val' = Line243(ia_args[1], ia_args[2], ia_args[3], ia_args[4], ia_args[5])
    /\ ia_pc' = "done"
    /\ UNCHANGED ia_args
    /\ UNCHANGED <<rebinVars, responseVars>>

InterpNext == InterpCall

SpecInterp == InterpInit /\ [][InterpNext]_vars

(***************************************************************************)
(* Properties of rebin_by_arrays                                           *)
(***************************************************************************)
\* first lower edge and last upper edge of the grid a centre array describes
RangeLo(arr) == RSub(arr[1], RDiv(RSub(arr[2], arr[1]), Q(2)))

RangeHi(arr) == RAdd(RangeLo(arr), RMul(RSub(arr[2], arr[1]), Q(Len(arr))))

Covers(outer, inner) ==
    /\ Len(outer) >= 2 /\ Len(inner) >= 2
    /\ RLe(RangeLo(outer), RangeLo(inner))
    /\ RLe(RangeHi(inner), RangeHi(outer))

Returned == rb_pc = "done" /\ rb_out.err = "none"

N_Eg == Len(Eg_array)

N_out == Len(Eout_array)

\* the row of R for output index j, and whether there is one
HasRow(j) == j \in DOMAIN R

RowSum(j) == IF HasRow(j) THEN SumSeq(R[j]) ELSE Q(0)

\* x < 0 or x > 0
NonZero(x) == RLt(x, Q(0)) \/ RGt(x, Q(0))

\* C3 as stated: every row at or above the threshold whose loop body has
\* run, with at least two calibration entries, sums to 1.
C3_RowSumsToOne ==
    \A j \in done_rows :
        (RGe(Eout_array[j + 1], Q(Egmin)) /\ N_Eg >= 2)
            => (HasRow(j) /\ RowSum(j) = Q(1))

\* C4 as stated: once response() has ended, every output index below the
\* threshold has a row in the response matrix, and the row is all zeros.
C4_BelowThresholdRowsZero ==
    pc = "exited" =>
        \A j \in 0..(N_out - 1) :
            RLt(Eout_array[j + 1], Q(Egmin))
                => (HasRow(j) /\ \A i \in 1..Len(R[j]) : R[j][i] = Q(0))

\* C5 as stated: with at least two strictly ascending calibration energies,
\* the bracket search leaves two valid, distinct indices, i_g_low < i_g_high.
C5_BracketValid ==
    (pc = "print" /\ N_Eg >= 2)
        => (0 <= i_g_low /\ i_g_low < i_g_high /\ i_g_high < N_Eg)

\* C7 as stated: the Compton edge used for a row is 2*E_j^2/(511 + 2*E_j)
\* and the backscatter energy is strictly below E_j.
C7_EdgeIsMaxRecoil ==
    pc = "regions" =>
        /\ Ece = RDiv(RMul(Q(2), RMul(E_j, E_j)), RAdd(Q(MeC2), RMul(Q(2), E_j)))
        /\ Ece = E_compton(E_j, "pi")
        /\ RLt(Ebsc, E_j)

\* resp.dat has no marker line, or declares more rows than follow its
\* header line
DataRows(file) ==
    Cardinality({p \in (FindMarker(file) + 3)..Len(file) : file[p][1] = "row"})

Malformed(file) ==
    \/ FindMarker(file) = 0
    \/ /\ LineAt(file, FindMarker(file) + 1)[1] = "int"
       /\ DataRows(file) < LineAt(file, FindMarker(file) + 1)[2]

\* C8: with a malformed resp.dat, response() never reaches the row loop: it
\* is still reading, or has ended in an error, and no row was started.
C8_FailFast ==
    Malformed(resp_dat) =>
        /\ pc \in {"start", "cmp", "plot", "error"}
        /\ (pc = "error" => err # "none")
        /\ skipped = {} /\ done_rows = {}

\* C8 witness: a resp.dat with the marker and too few rows was unpacked and
\* response() then ended in an error.
C8_Witness ==
    /\ Malformed(resp_dat)
    /\ FindMarker(resp_dat) # 0
    /\ Eg_array # <<>>
    /\ pc = "error"

\* what the calibration files hold, read again
StoredAsRead ==
    /\ <<Eg_array, FWHM_rel, Eff_tot, FE, SE, DE, c511>>
         = Unpack7(ParseResp(resp_dat).resp, ragged).cols
    /\ compton_matrix =
         [i \in 1..N_Eg |-> CmpCounts(CmpRowOf(Trunc(Eg_array[i])), variant, N_cmp)]

\* continuum channels plus the four peak components of a bracket
NormalizedTotal(cmp, pk) ==
    RAdd(SumSeq(cmp), RAdd(RAdd(pk[1], pk[2]), RAdd(pk[3], pk[4])))

\* C9: right after the normalisation step, each bracket whose total is
\* non-zero has continuum plus peak components summing to 1, and the stored
\* calibration data are what was read from the files.
C9_BracketNormalized ==
    pc = "edge" =>
        /\ NonZero(sum_low) => NormalizedTotal(cmp_low, pk_low) = Q(1)
        /\ NonZero(sum_high) => NormalizedTotal(cmp_high, pk_high) = Q(1)
        /\ StoredAsRead

\* C9 witness: a bracket with counts in its rebinned continuum and a 511
\* component was normalised by a total other than 1.
C9_Witness ==
    /\ pc = "edge"
    /\ NonZero(sum_low) /\ sum_low # Q(1)
    /\ NonZero(SumSeq(cmp_low)) /\ NonZero(pk_low[4])
    /\ NormalizedTotal(cmp_low, pk_low) = Q(1)
    /\ StoredAsRead

\* C10 as stated: with a1_cmp > 0 and N_cmp >= 2, bin centre i of Ecmp_array
\* is a0_cmp + i*a1_cmp, and the step rebin_by_arrays derives is a1_cmp.
C10_AxisIsLinearGrid ==
    (pc = "plot" /\ N_cmp >= 2 /\ RGt(a1_cmp, Q(0)))
        => /\ \A i \in 0..(N_cmp - 1) :
                Ecmp_array[i + 1] = RAdd(a0_cmp, RMul(Q(i), a1_cmp))
           /\ RSub(Ecmp_array[2], Ecmp_array[1]) = a1_cmp

(***************************************************************************)
(* Properties of the expression at line 243                                *)
(***************************************************************************)
\* C6 as stated: the value for a channel of region A is
\* P_low + (P_high - P_low) * (E_j - E_low) / (E_high - E_low).
C6_RegionAInterpolates ==
    ia_pc = "done" =>
        ia_val = RAdd(ia_args[1],
                      RDiv(RMul(RSub(ia_args[2], ia_args[1]),
                                RSub(ia_args[3], ia_args[4])),
                           RSub(ia_args[5], ia_args[4])))

====
